---------------------------- MODULE Spec2Model ----------------------------
(***************************************************************************)
(* A model of src/library/index.ts (namespace ms): runtime validators.     *)
(*                                                                         *)
(* A validator is a JavaScript function object (the predicate closure)     *)
(* that carries an `error` property.  The model keeps the function objects *)
(* in a heap, evaluates the closures the way the JavaScript engine does    *)
(* (strict equality, SameValueZero, typeof, property reads, relational     *)
(* comparison with its conversions, short-circuit && / some / every) and   *)
(* gives an evaluation three outcomes: "true", "false", or "TypeError"     *)
(* when the engine throws.                                                 *)
(***************************************************************************)
EXTENDS Integers, Sequences, FiniteSets, TLC

VARIABLES heap, created, call

vars == <<heap, created, call>>

---------------------------------------------------------------------------
(* JavaScript values.  k is the kind, n the numeric payload (a number's or *)
(* bigint's value, a boolean as 0/1, the identity of a symbol, object or   *)
(* array), s the characters of a string, p the own properties of an object *)
(* or array as <<key, value>> pairs in insertion order.                    *)

Val(k, n, s, p) == [k |-> k, n |-> n, s |-> s, p |-> p]

VUndefined == Val("undefined", 0, <<>>, <<>>)
VNull == Val("null", 0, <<>>, <<>>)
VNaN == Val("NaN", 0, <<>>, <<>>)
Num(n) == Val("number", n, <<>>, <<>>)
Big(n) == Val("bigint", n, <<>>, <<>>)
Bool(b) == Val("boolean", IF b THEN 1 ELSE 0, <<>>, <<>>)
Str(s) == Val("string", 0, s, <<>>)
Sym(ref) == Val("symbol", ref, <<>>, <<>>)
Obj(ref, props) == Val("object", ref, <<>>, props)
Arr(ref, items) ==
    Val("array", ref, <<>>, [i \in 1..Len(items) |-> <<ToString(i - 1), items[i]>>])

(* typeof value *)
TypeOf(v) ==
    CASE v.k = "null" -> "object"
      [] v.k = "array" -> "object"
      [] v.k = "NaN" -> "number"
      [] OTHER -> v.k

(* a === b *)
StrictEquals(a, b) ==
    IF a.k # b.k THEN FALSE
    ELSE CASE a.k \in {"undefined", "null"} -> TRUE
           [] a.k = "NaN" -> FALSE
           [] a.k = "string" -> a.s = b.s
           [] OTHER -> a.n = b.n

(* SameValueZero(a, b), the comparison of Array.prototype.includes *)
SameValueZero(a, b) ==
    IF a.k = "NaN" /\ b.k = "NaN" THEN TRUE ELSE StrictEquals(a, b)

(* values.includes(x) *)
ArrayIncludes(values, x) ==
    \E i \in 1..Len(values) : SameValueZero(values[i], x)

(* The own property `key` of v, or undefined. *)
OwnProperty(v, key) ==
    IF \E i \in 1..Len(v.p) : v.p[i][1] = key
    THEN v.p[CHOOSE i \in 1..Len(v.p) : v.p[i][1] = key][2]
    ELSE VUndefined

(* value[key]: the outcome of the property read, ok = FALSE when it throws *)
(* (a read on null or undefined).                                          *)
GetProperty(v, key) ==
    CASE v.k \in {"undefined", "null"} -> [ok |-> FALSE, v |-> VUndefined]
      [] v.k = "string" /\ key = "length" -> [ok |-> TRUE, v |-> Num(Len(v.s))]
      [] v.k = "array" /\ key = "length" -> [ok |-> TRUE, v |-> Num(Len(v.p))]
      [] v.k \in {"object", "array"} -> [ok |-> TRUE, v |-> OwnProperty(v, key)]
      [] OTHER -> [ok |-> TRUE, v |-> VUndefined]

---------------------------------------------------------------------------
(* Conversions.  Strings are sequences of one-character strings.           *)

Digits == <<"0", "1", "2", "3", "4", "5", "6", "7", "8", "9">>

IsDigit(c) == \E d \in 1..10 : Digits[d] = c

DigitValue(c) == (CHOOSE d \in 1..10 : Digits[d] = c) - 1

RECURSIVE NatToString(_)
NatToString(n) ==
    IF n < 10 THEN <<Digits[n + 1]>>
    ELSE NatToString(n \div 10) \o <<Digits[(n % 10) + 1]>>

(* Number::toString for an integer *)
NumberToString(n) == IF n < 0 THEN <<"-">> \o NatToString(-n) ELSE NatToString(n)

RECURSIVE DigitsToNat(_)
DigitsToNat(s) ==
    IF s = <<>> THEN 0
    ELSE 10 * DigitsToNat(SubSeq(s, 1, Len(s) - 1)) + DigitValue(s[Len(s)])

AllDigits(s) == s # <<>> /\ \A i \in 1..Len(s) : IsDigit(s[i])

(* StringToNumber: [nan, n].  The empty string is 0, an optionally signed  *)
(* decimal integer its value, anything else NaN.                           *)
StringToNumber(s) ==
    CASE s = <<>> -> [nan |-> FALSE, n |-> 0]
      [] AllDigits(s) -> [nan |-> FALSE, n |-> DigitsToNat(s)]
      [] s[1] = "-" /\ AllDigits(Tail(s)) -> [nan |-> FALSE, n |-> 0 - DigitsToNat(Tail(s))]
      [] s[1] = "+" /\ AllDigits(Tail(s)) -> [nan |-> FALSE, n |-> DigitsToNat(Tail(s))]
      [] OTHER -> [nan |-> TRUE, n |-> 0]

ObjectObject == <<"[", "o", "b", "j", "e", "c", "t", " ", "O", "b", "j", "e", "c", "t", "]">>

(* ToString(v): [ok, s]; ok = FALSE when the conversion throws a TypeError *)
(* (a symbol, or an array that holds one).                                 *)
RECURSIVE ToStringJS(_)
RECURSIVE JoinFrom(_, _)
JoinFrom(v, i) ==
    IF i > Len(v.p) THEN [ok |-> TRUE, s |-> <<>>]
    ELSE LET e == v.p[i][2]
             head == IF e.k \in {"undefined", "null"}
                     THEN [ok |-> TRUE, s |-> <<>>]
                     ELSE ToStringJS(e)
             rest == JoinFrom(v, i + 1)
         IN  IF ~head.ok \/ ~rest.ok THEN [ok |-> FALSE, s |-> <<>>]
             ELSE [ok |-> TRUE,
                   s |-> head.s \o (IF i < Len(v.p) THEN <<",">> ELSE <<>>) \o rest.s]
ToStringJS(v) ==
    CASE v.k = "undefined" -> [ok |-> TRUE, s |-> <<"u", "n", "d", "e", "f", "i", "n", "e", "d">>]
      [] v.k = "null" -> [ok |-> TRUE, s |-> <<"n", "u", "l", "l">>]
      [] v.k = "NaN" -> [ok |-> TRUE, s |-> <<"N", "a", "N">>]
      [] v.k = "boolean" ->
            [ok |-> TRUE, s |-> IF v.n = 1 THEN <<"t", "r", "u", "e">>
                                ELSE <<"f", "a", "l", "s", "e">>]
      [] v.k \in {"number", "bigint"} -> [ok |-> TRUE, s |-> NumberToString(v.n)]
      [] v.k = "string" -> [ok |-> TRUE, s |-> v.s]
      [] v.k = "symbol" -> [ok |-> FALSE, s |-> <<>>]
      [] v.k = "object" -> [ok |-> TRUE, s |-> ObjectObject]
      [] v.k = "array" -> JoinFrom(v, 1)

(* The numeric operand of a relational comparison with a number:           *)
(* ToPrimitive (hint number), then ToNumeric.  t is "num", "nan" or        *)
(* "throw".                                                                *)
ToNumeric(v) ==
    CASE v.k = "undefined" -> [t |-> "nan", n |-> 0]
      [] v.k = "null" -> [t |-> "num", n |-> 0]
      [] v.k = "NaN" -> [t |-> "nan", n |-> 0]
      [] v.k \in {"boolean", "number", "bigint"} -> [t |-> "num", n |-> v.n]
      [] v.k = "symbol" -> [t |-> "throw", n |-> 0]
      [] OTHER ->
            LET str == ToStringJS(v)
                num == StringToNumber(str.s)
            IN  IF ~str.ok THEN [t |-> "throw", n |-> 0]
                ELSE IF num.nan THEN [t |-> "nan", n |-> 0]
                ELSE [t |-> "num", n |-> num.n]

(* value >= bound and value <= bound, bound a number *)
GreaterOrEqual(v, bound) ==
    LET x == ToNumeric(v)
    IN  CASE x.t = "throw" -> "TypeError"
          [] x.t = "nan" -> "false"
          [] OTHER -> IF x.n >= bound THEN "true" ELSE "false"

LessOrEqual(v, bound) ==
    LET x == ToNumeric(v)
    IN  CASE x.t = "throw" -> "TypeError"
          [] x.t = "nan" -> "false"
          [] OTHER -> IF x.n <= bound THEN "true" ELSE "false"

(* a && b on outcomes: b is evaluated only when a is "true" *)
AndThen(a, b) == IF a = "true" THEN b ELSE a

Outcome(b) == IF b THEN "true" ELSE "false"

---------------------------------------------------------------------------
(* Function objects.  A closure names the arrow function (op) and the      *)
(* variables it captured: child validators by reference (heap indices),    *)
(* listed values, numeric bounds, and for object() the keys of the shape   *)
(* in Object.entries order (validators[i] belongs to keys[i]).  A function *)
(* object is the predicate closure (code) plus its `error` property.       *)

Closure(op, validators, values, min, max, keys) ==
    [op |-> op, validators |-> validators, values |-> values,
     min |-> min, max |-> max, keys |-> keys]

NoClosure == Closure("undefined", <<>>, <<>>, 0, 0, <<>>)

Primitive(kind) == Closure(kind, <<>>, <<>>, 0, 0, <<>>)

FunctionObject(code) == [code |-> code, error |-> NoClosure]

RECURSIVE Invoke(_, _, _)
RECURSIVE SomeFrom(_, _, _, _)
RECURSIVE EveryFrom(_, _, _, _)
RECURSIVE EveryEntryFrom(_, _, _, _)
RECURSIVE EveryElementFrom(_, _, _, _)

(* validators.some(validator => validator(value)), from index i on *)
SomeFrom(h, validators, i, value) ==
    IF i > Len(validators) THEN "false"
    ELSE LET r == Invoke(h, validators[i], value)
         IN  IF r = "false" THEN SomeFrom(h, validators, i + 1, value) ELSE r

(* validators.every(validator => validator(value)), from index i on *)
EveryFrom(h, validators, i, value) ==
    IF i > Len(validators) THEN "true"
    ELSE LET r == Invoke(h, validators[i], value)
         IN  IF r = "true" THEN EveryFrom(h, validators, i + 1, value) ELSE r

(* Object.entries(validators).every(([key, validator]) => validator(value[key])) *)
EveryEntryFrom(h, c, i, value) ==
    IF i > Len(c.keys) THEN "true"
    ELSE LET read == GetProperty(value, c.keys[i])
             r == IF read.ok THEN Invoke(h, c.validators[i], read.v) ELSE "TypeError"
         IN  IF r = "true" THEN EveryEntryFrom(h, c, i + 1, value) ELSE r

(* value.every(v => validator(v)) on an array *)
EveryElementFrom(h, validator, i, value) ==
    IF i > Len(value.p) THEN "true"
    ELSE LET r == Invoke(h, validator, value.p[i][2])
         IN  IF r = "true" THEN EveryElementFrom(h, validator, i + 1, value) ELSE r

(* typeof value === kind *)
primitiveTest(kind, value) == Outcome(TypeOf(value) = kind)

(* nullableTest without the null case *)
nullableTestInnerOnly(h, c, value) == Invoke(h, c.validators[1], value)

(* value === null || validator(value) *)
nullableTest(h, c, value) ==
    IF StrictEquals(value, VNull) THEN "true" ELSE Invoke(h, c.validators[1], value)

(* value === undefined || validator(value) *)
undefinableTest(h, c, value) ==
    IF StrictEquals(value, VUndefined) THEN "true" ELSE Invoke(h, c.validators[1], value)

(* v === value *)
literalTest(c, v) == Outcome(StrictEquals(v, c.values[1]))

(* values.includes(value) *)
oneOfTest(c, value) == Outcome(ArrayIncludes(c.values, value))

(* oneOfTypeTest that also asks the type validator *)
oneOfTypeTestTyped(h, c, value) ==
    AndThen(Invoke(h, c.validators[1], value), Outcome(ArrayIncludes(c.values, value)))

(* values.includes(value); the captured `type` is c.validators[1] *)
oneOfTypeTest(h, c, value) == Outcome(ArrayIncludes(c.values, value))

(* objectTest that rejects a value with a key the shape does not declare *)
objectTestExact(h, c, value) ==
    AndThen(Outcome(~StrictEquals(value, VNull)),
            AndThen(Outcome(TypeOf(value) = "object"),
                    AndThen(Outcome(\A i \in 1..Len(value.p) :
                                        \E j \in 1..Len(c.keys) : c.keys[j] = value.p[i][1]),
                            EveryEntryFrom(h, c, 1, value))))

(* value !== null && typeof value === "object" && Object.entries(...).every(...) *)
objectTest(h, c, value) ==
    AndThen(Outcome(~StrictEquals(value, VNull)),
            AndThen(Outcome(TypeOf(value) = "object"),
                    EveryEntryFrom(h, c, 1, value)))

(* Array.isArray(value) && value.every(v => validator(v)) *)
arrayTest(h, c, value) ==
    AndThen(Outcome(value.k = "array"),
            EveryElementFrom(h, c.validators[1], 1, value))

unionTest(h, c, value) == SomeFrom(h, c.validators, 1, value)

intersectionTest(h, c, value) == EveryFrom(h, c.validators, 1, value)

(* validator(value) && value >= min *)
minTest(h, c, value) ==
    AndThen(Invoke(h, c.validators[1], value), GreaterOrEqual(value, c.min))

(* validator(value) && value <= max *)
maxTest(h, c, value) ==
    AndThen(Invoke(h, c.validators[1], value), LessOrEqual(value, c.max))

(* rangeTest with the upper bound exclusive *)
rangeTestExclusive(h, c, value) ==
    AndThen(AndThen(Invoke(h, c.validators[1], value), GreaterOrEqual(value, c.min)),
            LessOrEqual(value, c.max - 1))

(* validator(value) && value >= min && value <= max *)
rangeTest(h, c, value) ==
    AndThen(AndThen(Invoke(h, c.validators[1], value), GreaterOrEqual(value, c.min)),
            LessOrEqual(value, c.max))

(* value.length, then a comparison of what the read gave *)
LengthStrictEquals(value, length) ==
    LET len == GetProperty(value, "length")
    IN  IF ~len.ok THEN "TypeError" ELSE Outcome(StrictEquals(len.v, Num(length)))

LengthGreaterOrEqual(value, min) ==
    LET len == GetProperty(value, "length")
    IN  IF ~len.ok THEN "TypeError" ELSE GreaterOrEqual(len.v, min)

LengthLessOrEqual(value, max) ==
    LET len == GetProperty(value, "length")
    IN  IF ~len.ok THEN "TypeError" ELSE LessOrEqual(len.v, max)

(* validator(value) && value.length === length *)
lengthTest(h, c, value) ==
    AndThen(Invoke(h, c.validators[1], value), LengthStrictEquals(value, c.min))

(* validator(value) && value.length >= min *)
minLengthTest(h, c, value) ==
    AndThen(Invoke(h, c.validators[1], value), LengthGreaterOrEqual(value, c.min))

(* validator(value) && value.length <= max *)
maxLengthTest(h, c, value) ==
    AndThen(Invoke(h, c.validators[1], value), LengthLessOrEqual(value, c.max))

(* validator(value) && value.length >= min && value.length <= max *)
rangeLengthTest(h, c, value) ==
    AndThen(AndThen(Invoke(h, c.validators[1], value), LengthGreaterOrEqual(value, c.min)),
            LengthLessOrEqual(value, c.max))

(* A predicate written by the library's user: (v): v is null => v === null *)
userIsNullTest(value) == Outcome(StrictEquals(value, VNull))

PrimitiveKinds == {"string", "number", "boolean", "symbol", "bigint"}

(* The closure c applied to value, children read from heap h. *)
Apply(h, c, value) ==
    CASE c.op \in PrimitiveKinds -> primitiveTest(c.op, value)
      [] c.op = "nullable" -> nullableTest(h, c, value)
      [] c.op = "undefinable" -> undefinableTest(h, c, value)
      [] c.op = "literal" -> literalTest(c, value)
      [] c.op = "oneOf" -> oneOfTest(c, value)
      [] c.op = "oneOfType" -> oneOfTypeTest(h, c, value)
      [] c.op = "object" -> objectTest(h, c, value)
      [] c.op = "array" -> arrayTest(h, c, value)
      [] c.op = "union" -> unionTest(h, c, value)
      [] c.op = "intersection" -> intersectionTest(h, c, value)
      [] c.op = "min" -> minTest(h, c, value)
      [] c.op = "max" -> maxTest(h, c, value)
      [] c.op = "range" -> rangeTest(h, c, value)
      [] c.op = "length" -> lengthTest(h, c, value)
      [] c.op = "minLength" -> minLengthTest(h, c, value)
      [] c.op = "maxLength" -> maxLengthTest(h, c, value)
      [] c.op = "rangeLength" -> rangeLengthTest(h, c, value)
      [] c.op = "userIsNull" -> userIsNullTest(value)

(* validator(value): the function object at heap index f called on value *)
Invoke(h, f, value) == Apply(h, h[f].code, value)

---------------------------------------------------------------------------
(* Failure messages.  A message is a sequence of text pieces; an           *)
(* evaluation of an `error` closure is [ok, msg], ok = FALSE when building *)
(* the message throws a TypeError.                                         *)

Message(msg) == [ok |-> TRUE, msg |-> msg]

MessageThrows == [ok |-> FALSE, msg |-> <<>>]

(* ${value}: the template literal's ToString *)
Interpolate(value) ==
    LET str == ToStringJS(value)
    IN  IF str.ok THEN Message(str.s) ELSE MessageThrows

(* ${value?.toString()}: undefined for null and undefined, and a symbol's  *)
(* own toString, which gives its description and does not throw.           *)
InterpolateToString(value) ==
    CASE value.k \in {"undefined", "null"} -> Message(<<"undefined">>)
      [] value.k = "symbol" -> Message(<<"Symbol()">>)
      [] OTHER -> Interpolate(value)

(* pieces of a template, left to right: the first that throws decides *)
RECURSIVE Template(_)
Template(parts) ==
    IF parts = <<>> THEN Message(<<>>)
    ELSE LET rest == Template(Tail(parts))
         IN  IF ~parts[1].ok \/ ~rest.ok THEN MessageThrows
             ELSE Message(parts[1].msg \o rest.msg)

Text(str) == Message(<<str>>)

NumberText(n) == Message(NumberToString(n))

RECURSIVE ErrorOf(_, _, _)
RECURSIVE JoinErrors(_, _, _, _)
RECURSIVE JoinTypeErrors(_, _, _, _)
RECURSIVE JoinToStrings(_, _)

(* validators.map(validator => validator.error(value)).join(", ") *)
JoinErrors(h, validators, i, value) ==
    IF i > Len(validators) THEN Message(<<>>)
    ELSE Template(<<ErrorOf(h, validators[i], value),
                    IF i < Len(validators) THEN Text(", ") ELSE Message(<<>>),
                    JoinErrors(h, validators, i + 1, value)>>)

(* values.map(v => type.error(v)).join(", ") *)
JoinTypeErrors(h, type, values, i) ==
    IF i > Len(values) THEN Message(<<>>)
    ELSE Template(<<ErrorOf(h, type, values[i]),
                    IF i < Len(values) THEN Text(", ") ELSE Message(<<>>),
                    JoinTypeErrors(h, type, values, i + 1)>>)

(* values.map(v => v?.toString()).join(", "): join writes undefined as "" *)
JoinToStrings(values, i) ==
    IF i > Len(values) THEN Message(<<>>)
    ELSE Template(<<IF values[i].k \in {"undefined", "null"} THEN Message(<<>>)
                    ELSE InterpolateToString(values[i]),
                    IF i < Len(values) THEN Text(", ") ELSE Message(<<>>),
                    JoinToStrings(values, i + 1)>>)

primitiveError(kind, value) ==
    Template(<<Text("Expected "), Text(kind), Text(", got "), Text(TypeOf(value))>>)

nullableError(h, c, value) ==
    Template(<<Text("Expected null or "), ErrorOf(h, c.validators[1], value),
               Text(", got "), Text(TypeOf(value))>>)

undefinableError(h, c, value) ==
    Template(<<Text("Expected undefined or "), ErrorOf(h, c.validators[1], value),
               Text(", got "), Text(TypeOf(value))>>)

literalError(c, v) ==
    Template(<<Text("Expected "), InterpolateToString(c.values[1]),
               Text(", got "), InterpolateToString(v)>>)

oneOfError(c, value) ==
    Template(<<Text("Expected one of "), JoinToStrings(c.values, 1),
               Text(", got "), InterpolateToString(value)>>)

oneOfTypeError(h, c, value) ==
    Template(<<Text("Expected one of "), JoinTypeErrors(h, c.validators[1], c.values, 1),
               Text(", got "), InterpolateToString(value)>>)

objectError(value) == Template(<<Text("Expected object, got "), Text(TypeOf(value))>>)

arrayError(value) == Template(<<Text("Expected array, got "), Text(TypeOf(value))>>)

unionError(h, c, value) ==
    Template(<<Text("Expected one of "), JoinErrors(h, c.validators, 1, value),
               Text(", got "), InterpolateToString(value)>>)

intersectionError(h, c, value) ==
    Template(<<Text("Expected intersection of "), JoinErrors(h, c.validators, 1, value),
               Text(", got "), InterpolateToString(value)>>)

(* `Expected ${validator.error(value)}<what>${bound}, got ${value}` *)
boundError(h, c, what, bound, value) ==
    Template(<<Text("Expected "), ErrorOf(h, c.validators[1], value), Text(what),
               NumberText(bound), Text(", got "), Interpolate(value)>>)

(* `Expected ${validator.error(value)}<what>${min} && <= ${max}, got ${value}` *)
boundsError(h, c, what, value) ==
    Template(<<Text("Expected "), ErrorOf(h, c.validators[1], value), Text(what),
               NumberText(c.min), Text(" && <= "), NumberText(c.max),
               Text(", got "), Interpolate(value)>>)

(* Messages written by the library's user. *)
userError(op) == Text(op)

UserErrors == {"userErrorA", "userErrorB"}

(* The closure e, an `error` property, applied to value; calling a missing *)
(* property throws.                                                        *)
ApplyError(h, e, value) ==
    CASE e.op \in PrimitiveKinds -> primitiveError(e.op, value)
      [] e.op = "nullable" -> nullableError(h, e, value)
      [] e.op = "undefinable" -> undefinableError(h, e, value)
      [] e.op = "literal" -> literalError(e, value)
      [] e.op = "oneOf" -> oneOfError(e, value)
      [] e.op = "oneOfType" -> oneOfTypeError(h, e, value)
      [] e.op = "object" -> objectError(value)
      [] e.op = "array" -> arrayError(value)
      [] e.op = "union" -> unionError(h, e, value)
      [] e.op = "intersection" -> intersectionError(h, e, value)
      [] e.op = "min" -> boundError(h, e, " >= ", e.min, value)
      [] e.op = "max" -> boundError(h, e, " <= ", e.max, value)
      [] e.op = "range" -> boundsError(h, e, " >= ", value)
      [] e.op = "length" -> boundError(h, e, ".length === ", e.min, value)
      [] e.op = "minLength" -> boundError(h, e, ".length >= ", e.min, value)
      [] e.op = "maxLength" -> boundError(h, e, ".length <= ", e.max, value)
      [] e.op = "rangeLength" -> boundsError(h, e, ".length >= ", value)
      [] e.op \in UserErrors -> userError(e.op)
      [] OTHER -> MessageThrows

(* validator.error(value) *)
ErrorOf(h, f, value) == ApplyError(h, h[f].error, value)

---------------------------------------------------------------------------
(* createValidator and the combinators, as functions of the heap.          *)

(* v = validator; v.error = error; return v: the function object passed in *)
(* is the validator returned.                                              *)
createValidator(h, validator, error) == [h EXCEPT ![validator].error = error]

(* A combinator allocates its predicate closure and hands it, with the     *)
(* error closure that captured the same variables, to createValidator.     *)
Allocate(h, code) == Append(h, FunctionObject(code))

Combinator(h, closure) == createValidator(Allocate(h, closure), Len(h) + 1, closure)

nullable(h, validator) ==
    Combinator(h, Closure("nullable", <<validator>>, <<>>, 0, 0, <<>>))

undefinable(h, validator) ==
    Combinator(h, Closure("undefinable", <<validator>>, <<>>, 0, 0, <<>>))

literal(h, value) == Combinator(h, Closure("literal", <<>>, <<value>>, 0, 0, <<>>))

oneOf(h, values) == Combinator(h, Closure("oneOf", <<>>, values, 0, 0, <<>>))

oneOfType(h, type, values) ==
    Combinator(h, Closure("oneOfType", <<type>>, values, 0, 0, <<>>))

object(h, keys, validators) ==
    Combinator(h, Closure("object", validators, <<>>, 0, 0, keys))

array(h, validator) == Combinator(h, Closure("array", <<validator>>, <<>>, 0, 0, <<>>))

union(h, validators) == Combinator(h, Closure("union", validators, <<>>, 0, 0, <<>>))

intersection(h, validators) ==
    Combinator(h, Closure("intersection", validators, <<>>, 0, 0, <<>>))

min(h, validator, m) == Combinator(h, Closure("min", <<validator>>, <<>>, m, 0, <<>>))

max(h, validator, m) == Combinator(h, Closure("max", <<validator>>, <<>>, 0, m, <<>>))

range(h, validator, m, n) ==
    Combinator(h, Closure("range", <<validator>>, <<>>, m, n, <<>>))

length(h, validator, n) ==
    Combinator(h, Closure("length", <<validator>>, <<>>, n, 0, <<>>))

minLength(h, validator, m) ==
    Combinator(h, Closure("minLength", <<validator>>, <<>>, m, 0, <<>>))

maxLength(h, validator, m) ==
    Combinator(h, Closure("maxLength", <<validator>>, <<>>, 0, m, <<>>))

rangeLength(h, validator, m, n) ==
    Combinator(h, Closure("rangeLength", <<validator>>, <<>>, m, n, <<>>))

(* The five primitive validators, created when the module is loaded. *)
PrimitiveOrder == <<"string", "number", "boolean", "symbol", "bigint">>

RECURSIVE LoadPrimitives(_)
LoadPrimitives(i) ==
    IF i = 0 THEN <<>>
    ELSE Combinator(LoadPrimitives(i - 1), Primitive(PrimitiveOrder[i]))

Primitives == LoadPrimitives(Len(PrimitiveOrder))

string == 1
number == 2
boolean == 3
symbol == 4
bigint == 5

(* parse: the value returned, or the error thrown.  A TypeError thrown by  *)
(* the validator or by validator.error passes through; otherwise the       *)
(* thrown Error carries the message.                                       *)
Returned(value) == [kind |-> "return", value |-> value, msg |-> <<>>]

Thrown(kind, msg) == [kind |-> kind, value |-> VUndefined, msg |-> msg]

parse(h, validator, value) ==
    LET r == Invoke(h, validator, value)
        e == ErrorOf(h, validator, value)
    IN  CASE r = "TypeError" -> Thrown("TypeError", <<>>)
          [] r = "true" -> Returned(value)
          [] OTHER -> IF e.ok THEN Thrown("Error", e.msg) ELSE Thrown("TypeError", <<>>)

parseUnknown(h, validator, value) == parse(h, validator, value)

---------------------------------------------------------------------------
(* The program: the module is loaded (the primitives exist), then the      *)
(* caller builds validators and calls them.  `created` records, for every  *)
(* createValidator call so far, the validator it returned with the code    *)
(* and the error it had on return; `call` is the last call made and its    *)
(* outcome.                                                                *)

MaxNew == 1
MaxArity == 2

Snapshot(h, validator) ==
    [validator |-> validator, code |-> h[validator].code, error |-> h[validator].error]

Result(kind) == Thrown(kind, <<>>)

NoCall == [op |-> "none", validator |-> 0, value |-> VUndefined, out |-> Result("none")]

Init ==
    /\ heap = Primitives
    /\ created = [i \in 1..Len(Primitives) |-> Snapshot(Primitives, i)]
    /\ call = NoCall

Validators == 1..Len(heap)

(* A run builds validators and then makes one call.  A call changes       *)
(* neither heap nor created, so what a later step would reach is reached   *)
(* by the run that takes that step first.                                  *)
Building == call = NoCall

(* A combinator call returned the new validator, the last of heap h. *)
Built(h) ==
    /\ Building
    /\ heap' = h
    /\ created' = Append(created, Snapshot(h, Len(h)))
    /\ call' = NoCall

(* Sequences over S of length 0..n *)
SeqsUpTo(S, n) == UNION {[1..k -> S] : k \in 0..n}

(* Arguments the caller passes. *)
SymbolA == Sym(1)
EmptyObject == Obj(2, <<>>)
EmptyObjectTwin == Obj(3, <<>>)
NamedExtra == Obj(4, <<<<"name", Str(<<"a">>)>>, <<"extra", Num(1)>>>>)
NamedOnly == Obj(5, <<<<"name", Str(<<"a">>)>>>>)
NamedNumber == Obj(6, <<<<"name", Num(1)>>>>)
NamedAged == Obj(7, <<<<"name", Str(<<"a">>)>>, <<"age", VNull>>>>)
EmptyArray == Arr(8, <<>>)
FiveArray == Arr(9, <<Num(5)>>)
SymbolArray == Arr(10, <<SymbolA>>)
NamedSymbol == Obj(11, <<<<"name", SymbolA>>>>)

NumArgs == {0, 1, 10}
ListArgs == {VNaN, Num(1), EmptyObject}
Keys == {"name", "age"}
Values ==
    {VUndefined, VNull, VNaN, Num(0 - 1), Num(0), Num(1), Num(5), Num(10), Num(11),
     Bool(TRUE), Big(1), Str(<<>>), Str(<<"1">>), Str(<<"a">>), SymbolA,
     EmptyObject, EmptyObjectTwin, NamedExtra, NamedOnly, NamedNumber, NamedAged, NamedSymbol,
     EmptyArray, FiveArray, SymbolArray}

(* createValidator called by the library's user: the predicate is a        *)
(* function it wrote, allocated now, or a function object that exists.     *)
CreateValidator ==
    /\ Building
    /\ \E e \in UserErrors :
          \/ LET h == Allocate(heap, Primitive("userIsNull"))
             IN  /\ heap' = createValidator(h, Len(h), Primitive(e))
                 /\ created' = Append(created, Snapshot(heap', Len(h)))
          \/ \E f \in Validators :
                /\ heap' = createValidator(heap, f, Primitive(e))
                /\ created' = Append(created, Snapshot(heap', f))
    /\ call' = NoCall

Nullable == \E v \in Validators : Built(nullable(heap, v))

Undefinable == \E v \in Validators : Built(undefinable(heap, v))

Literal == \E x \in ListArgs : Built(literal(heap, x))

OneOf == \E xs \in SeqsUpTo(ListArgs, MaxArity) : Built(oneOf(heap, xs))

OneOfType ==
    \E v \in Validators, xs \in SeqsUpTo(ListArgs, MaxArity) : Built(oneOfType(heap, v, xs))

Object ==
    \E keys \in SeqsUpTo(Keys, MaxArity) :
        /\ \A i, j \in 1..Len(keys) : i # j => keys[i] # keys[j]
        /\ \E vs \in [1..Len(keys) -> Validators] : Built(object(heap, keys, vs))

Array == \E v \in Validators : Built(array(heap, v))

Union == \E vs \in SeqsUpTo(Validators, MaxArity) : Built(union(heap, vs))

Intersection == \E vs \in SeqsUpTo(Validators, MaxArity) : Built(intersection(heap, vs))

Min == \E v \in Validators, m \in NumArgs : Built(min(heap, v, m))

Max == \E v \in Validators, m \in NumArgs : Built(max(heap, v, m))

Range == \E v \in Validators, m \in NumArgs, n \in NumArgs : Built(range(heap, v, m, n))

Length == \E v \in Validators, n \in NumArgs : Built(length(heap, v, n))

MinLength == \E v \in Validators, m \in NumArgs : Built(minLength(heap, v, m))

MaxLength == \E v \in Validators, m \in NumArgs : Built(maxLength(heap, v, m))

RangeLength ==
    \E v \in Validators, m \in NumArgs, n \in NumArgs : Built(rangeLength(heap, v, m, n))

Called(op, f, x, out) ==
    /\ Building
    /\ call' = [op |-> op, validator |-> f, value |-> x, out |-> out]
    /\ UNCHANGED <<heap, created>>

(* validator(value) *)
CallValidator ==
    \E f \in Validators, x \in Values :
        Called("validator", f, x, Result(Invoke(heap, f, x)))

Parse == \E f \in Validators, x \in Values : Called("parse", f, x, parse(heap, f, x))

ParseUnknown ==
    \E f \in Validators, x \in Values :
        Called("parseUnknown", f, x, parseUnknown(heap, f, x))

(* Spec: every operation of the library, MaxNew createValidator calls      *)
(* after the module's own.                                                 *)
CanBuild == Len(created) < Len(Primitives) + MaxNew

Next ==
    \/ CanBuild /\ CreateValidator
    \/ CanBuild /\ Nullable
    \/ CanBuild /\ Undefinable
    \/ CanBuild /\ Literal
    \/ CanBuild /\ OneOf
    \/ CanBuild /\ OneOfType
    \/ CanBuild /\ Object
    \/ CanBuild /\ Array
    \/ CanBuild /\ Union
    \/ CanBuild /\ Intersection
    \/ CanBuild /\ Min
    \/ CanBuild /\ Max
    \/ CanBuild /\ Range
    \/ CanBuild /\ Length
    \/ CanBuild /\ MinLength
    \/ CanBuild /\ MaxLength
    \/ CanBuild /\ RangeLength
    \/ CallValidator
    \/ Parse
    \/ ParseUnknown

Spec == Init /\ [][Next]_vars

---------------------------------------------------------------------------
(* Claims checked under Spec.                                              *)

CalledOp(ops) == call.op \in ops

TheCode == heap[call.validator].code

(* C1: invoking a validator never throws: every validator(value) call      *)
(* ends with true or false.                                                *)
C1_TestNeverThrows ==
    CalledOp({"validator"}) => call.out.kind \in {"true", "false"}

(* C2: parse(V, x) and parseUnknown(V, x) have exactly two outcomes: they  *)
(* return x itself when V.test(x) is true, and when it is false they raise *)
(* an Error whose message is exactly V.describeFailure(x).                 *)
C2_ParseTwoOutcomes ==
    CalledOp({"parse", "parseUnknown"}) =>
        LET test == Invoke(heap, call.validator, call.value)
            failure == ErrorOf(heap, call.validator, call.value)
        IN  \/ test = "true" /\ call.out = Returned(call.value)
            \/ /\ test = "false"
               /\ failure.ok
               /\ call.out = Thrown("Error", failure.msg)

(* C3: a validator is immutable once constructed: every validator a        *)
(* createValidator call returned still has the code and the error it was   *)
(* returned with.                                                          *)
C3_Immutable ==
    \A i \in 1..Len(created) :
        Snapshot(heap, created[i].validator) = created[i]

(* C4: oneOf(v1..vn).test(x) is true iff x strictly equals (===) one of    *)
(* v1..vn, and oneOf(v).test(x) equals literal(v).test(x).                 *)
C4_OneOfStrict ==
    (CalledOp({"validator"}) /\ TheCode.op = "oneOf") =>
        /\ call.out.kind = "true" <=>
              \E i \in 1..Len(TheCode.values) :
                  StrictEquals(call.value, TheCode.values[i])
        /\ Len(TheCode.values) = 1 =>
              call.out.kind =
                  literalTest(Closure("literal", <<>>, TheCode.values, 0, 0, <<>>),
                              call.value)

---------------------------------------------------------------------------
(* SpecLogic: the caller builds at most one validator over the primitives  *)
(* (a nullable or a min), then one union, intersection or object over the  *)
(* validators that exist, and calls a validator.                           *)

Loaded == heap = Primitives

TopOp == heap[Len(heap)].code.op

LogicOps == {"union", "intersection", "object"}

NextLogic ==
    \/ Loaded /\ Nullable
    \/ Loaded /\ Min
    \/ TopOp \notin LogicOps /\ Union
    \/ TopOp \notin LogicOps /\ Intersection
    \/ TopOp \notin LogicOps /\ Object
    \/ CallValidator

SpecLogic == Init /\ [][NextLogic]_vars

(* a || b on outcomes: b is evaluated only when a is "false" *)
OrElse(a, b) == IF a = "false" THEN b ELSE a

ChildOutcome(i) == Invoke(heap, TheCode.validators[i], call.value)

Reversed(s) == [i \in 1..Len(s) |-> s[Len(s) + 1 - i]]

(* C5: union(A,B).test(x) equals A.test(x) || B.test(x) and                *)
(* intersection(A,B).test(x) equals A.test(x) && B.test(x); for n children *)
(* union accepts iff at least one child accepts, intersection iff every    *)
(* child accepts.                                                          *)
C5_UnionIntersection ==
    /\ (CalledOp({"validator"}) /\ TheCode.op = "union") =>
          /\ Len(TheCode.validators) = 2 =>
                call.out.kind = OrElse(ChildOutcome(1), ChildOutcome(2))
          /\ call.out.kind = "true" <=>
                \E i \in 1..Len(TheCode.validators) : ChildOutcome(i) = "true"
    /\ (CalledOp({"validator"}) /\ TheCode.op = "intersection") =>
          /\ Len(TheCode.validators) = 2 =>
                call.out.kind = AndThen(ChildOutcome(1), ChildOutcome(2))
          /\ call.out.kind = "true" <=>
                \A i \in 1..Len(TheCode.validators) : ChildOutcome(i) = "true"

(* C8: the order of children never affects the outcome of test: a union,   *)
(* an intersection or an object called on x has the outcome the same       *)
(* combinator gives with its children (its keys) in the opposite order.    *)
C8_OrderIndependent ==
    (CalledOp({"validator"}) /\ TheCode.op \in LogicOps) =>
        call.out.kind =
            Apply(heap,
                  [TheCode EXCEPT !.validators = Reversed(@), !.keys = Reversed(@)],
                  call.value)

---------------------------------------------------------------------------
(* SpecRange: the caller builds at most one nullable or undefinable over a *)
(* primitive, then one min, max or range over a validator that exists, and *)
(* calls a validator.                                                      *)

RangeOps == {"min", "max", "range"}

NextRange ==
    \/ Loaded /\ Nullable
    \/ Loaded /\ Undefinable
    \/ TopOp \notin RangeOps /\ Min
    \/ TopOp \notin RangeOps /\ Max
    \/ TopOp \notin RangeOps /\ Range
    \/ CallValidator

SpecRange == Init /\ [][NextRange]_vars

(* x as the number the comparison reads, at least lo / at most hi *)
AtLeast(x, lo) == ToNumeric(x).t = "num" /\ lo <= ToNumeric(x).n

AtMost(x, hi) == ToNumeric(x).t = "num" /\ ToNumeric(x).n <= hi

RangeOfNumber == Closure("range", <<number>>, <<>>, 0, 10, <<>>)

(* C7: range(V, m, n).test(x) is true iff V.test(x) is true and            *)
(* m <= x <= n, both ends inclusive; min(V, m) iff V.test(x) and x >= m;   *)
(* max(V, m) iff V.test(x) and x <= m; when the inner validator does not   *)
(* accept, its outcome is the result and the bound is not evaluated;       *)
(* range(number, 0, 10) accepts 0, 5 and 10 and rejects -1 and 11.         *)
C7_InclusiveBounds ==
    (CalledOp({"validator"}) /\ TheCode.op \in RangeOps) =>
        LET inner == ChildOutcome(1)
            x == call.value
            accepted == call.out.kind = "true"
        IN  /\ TheCode.op = "range" =>
                  (accepted <=>
                      inner = "true" /\ AtLeast(x, TheCode.min) /\ AtMost(x, TheCode.max))
            /\ TheCode.op = "min" => (accepted <=> inner = "true" /\ AtLeast(x, TheCode.min))
            /\ TheCode.op = "max" => (accepted <=> inner = "true" /\ AtMost(x, TheCode.max))
            /\ inner # "true" => call.out.kind = inner
            /\ (TheCode = RangeOfNumber /\ x \in {Num(0), Num(5), Num(10)}) => accepted
            /\ (TheCode = RangeOfNumber /\ x \in {Num(0 - 1), Num(11)}) =>
                  call.out.kind = "false"

(* range(number, 0, 10) was called on 10 and accepted it. *)
C7_Witness ==
    /\ CalledOp({"validator"})
    /\ TheCode = RangeOfNumber
    /\ call.value = Num(10)
    /\ call.out.kind = "true"

---------------------------------------------------------------------------
(* SpecObject: the caller builds at most one nullable or min over a        *)
(* primitive, then one object over the validators that exist, and calls a  *)
(* validator.                                                              *)

NextObject ==
    \/ Loaded /\ Nullable
    \/ Loaded /\ Min
    \/ TopOp # "object" /\ Object
    \/ CallValidator

SpecObject == Init /\ [][NextObject]_vars

(* x with own key `key` set to e: changed in place, or added last *)
WithKey(x, key, e) ==
    IF \E i \in 1..Len(x.p) : x.p[i][1] = key
    THEN [x EXCEPT !.p = [i \in 1..Len(x.p) |->
                             IF x.p[i][1] = key THEN <<key, e>> ELSE x.p[i]]]
    ELSE [x EXCEPT !.p = Append(x.p, <<key, e>>)]

ExtraValues == {VUndefined, VNull, Num(1), Str(<<"a">>), SymbolA}

ObjectOfName == Closure("object", <<string>>, <<>>, 0, 0, <<"name">>)

(* C6: object(shape).test(x) is true iff x is non-null, of object kind,    *)
(* and every key k of shape has shape[k] accept x[k] (undefined when x has *)
(* no such key); adding or changing an undeclared key of x never changes   *)
(* the result; object({name: string}) accepts {name: "a", extra: 1} and    *)
(* rejects {name: 1} and null.                                             *)
C6_ObjectShape ==
    (CalledOp({"validator"}) /\ TheCode.op = "object") =>
        LET x == call.value
        IN  /\ call.out.kind = "true" <=>
                  /\ x.k # "null"
                  /\ TypeOf(x) = "object"
                  /\ \A i \in 1..Len(TheCode.keys) :
                        Invoke(heap, TheCode.validators[i],
                               OwnProperty(x, TheCode.keys[i])) = "true"
            /\ x.k = "object" =>
                  \A e \in ExtraValues :
                      Apply(heap, TheCode, WithKey(x, "extra", e)) = call.out.kind
            /\ (TheCode = ObjectOfName /\ x = NamedExtra) => call.out.kind = "true"
            /\ (TheCode = ObjectOfName /\ x \in {NamedNumber, VNull}) =>
                  call.out.kind = "false"

(* object({name: string}) was called on {name: "a", extra: 1} and accepted it. *)
C6_Witness ==
    /\ CalledOp({"validator"})
    /\ TheCode = ObjectOfName
    /\ call.value = NamedExtra
    /\ call.out.kind = "true"

---------------------------------------------------------------------------
(* SpecSets: the caller builds at most one nullable or min over a          *)
(* primitive, then one literal, oneOf or oneOfType, and calls a validator. *)

SetOps == {"literal", "oneOf", "oneOfType"}

NextSets ==
    \/ Loaded /\ Nullable
    \/ Loaded /\ Min
    \/ TopOp \notin SetOps /\ Literal
    \/ TopOp \notin SetOps /\ OneOf
    \/ TopOp \notin SetOps /\ OneOfType
    \/ CallValidator

SpecSets == Init /\ [][NextSets]_vars

(* C10: oneOfType(type, v1..vn).test(x) equals oneOf(v1..vn).test(x), and  *)
(* the result does not depend on the type validator: it is the same with   *)
(* any other validator as the type.                                        *)
C10_OneOfTypeIsOneOf ==
    (CalledOp({"validator"}) /\ TheCode.op = "oneOfType") =>
        /\ call.out.kind =
              oneOfTest(Closure("oneOf", <<>>, TheCode.values, 0, 0, <<>>), call.value)
        /\ \A type \in Validators \ {call.validator} :
              Apply(heap, [TheCode EXCEPT !.validators = <<type>>], call.value)
                  = call.out.kind

(* A oneOfType whose type validator does not accept the value was called   *)
(* and accepted it.                                                        *)
C10_Witness ==
    /\ CalledOp({"validator"})
    /\ TheCode.op = "oneOfType"
    /\ ChildOutcome(1) = "false"
    /\ call.out.kind = "true"

---------------------------------------------------------------------------
(* SpecPerson: the module has built                                        *)
(*   person = object({ name: rangeLength(string, 1, 32),                   *)
(*                     age: nullable(min(number, 0)) })                    *)
(* and the caller calls a validator.                                       *)

PersonHeap ==
    LET named == rangeLength(Primitives, string, 1, 32)
        aged == min(named, number, 0)
        agedOrNull == nullable(aged, Len(aged))
    IN  object(agedOrNull, <<"name", "age">>, <<Len(named), Len(agedOrNull)>>)

person == Len(PersonHeap)

Letters(n) == [i \in 1..n |-> "A"]

Absent == [present |-> FALSE, v |-> VUndefined]

Present(v) == [present |-> TRUE, v |-> v]

NameChoices ==
    <<Absent, Present(Str(Letters(0))), Present(Str(Letters(1))), Present(Str(<<"A", "l">>)),
      Present(Str(Letters(32))), Present(Str(Letters(33))), Present(Num(2)), Present(VNull),
      Present(Arr(20, <<Str(<<"A">>), Str(<<"l">>)>>))>>

AgeChoices ==
    <<Absent, Present(VNull), Present(VUndefined), Present(Num(0 - 1)), Present(Num(0)),
      Present(Num(5)), Present(VNaN), Present(Str(<<"5">>)), Present(Bool(TRUE)),
      Present(Big(5))>>

PersonObject(i, j) ==
    Obj(100 + 20 * i + j,
        (IF NameChoices[i].present THEN <<<<"name", NameChoices[i].v>>>> ELSE <<>>)
        \o (IF AgeChoices[j].present THEN <<<<"age", AgeChoices[j].v>>>> ELSE <<>>))

PersonValues ==
    {PersonObject(i, j) : i \in 1..Len(NameChoices), j \in 1..Len(AgeChoices)}
    \cup {VNull, VUndefined, Str(<<"A", "l">>), Num(5), EmptyArray}

InitPerson ==
    /\ heap = PersonHeap
    /\ created = [i \in 1..Len(PersonHeap) |-> Snapshot(PersonHeap, i)]
    /\ call = NoCall

CallPerson ==
    \E f \in Validators, x \in PersonValues :
        Called("validator", f, x, Result(Invoke(heap, f, x)))

NextPerson == CallPerson

SpecPerson == InitPerson /\ [][NextPerson]_vars

Al == Str(<<"A", "l">>)

(* {name: "Al", age: null}, {name: "", age: 5}, {name: "Al", age: -1} *)
AlNoAge == PersonObject(4, 2)
NamelessFive == PersonObject(2, 6)
AlMinusOne == PersonObject(4, 4)

IsPerson(v) ==
    /\ v.k \in {"object", "array"}
    /\ OwnProperty(v, "name").k = "string"
    /\ Len(OwnProperty(v, "name").s) \in 1..32
    /\ \/ OwnProperty(v, "age").k = "null"
       \/ OwnProperty(v, "age").k = "number" /\ OwnProperty(v, "age").n >= 0

(* C9: person.test(v) is true iff v is a non-null object whose name is a   *)
(* string of length 1..32 and whose age is null or a number >= 0; person   *)
(* accepts {name: "Al", age: null} and rejects {name: "", age: 5} and      *)
(* {name: "Al", age: -1}.                                                  *)
C9_Person ==
    (CalledOp({"validator"}) /\ call.validator = person) =>
        /\ call.out.kind = IF IsPerson(call.value) THEN "true" ELSE "false"
        /\ call.value = AlNoAge => call.out.kind = "true"
        /\ call.value \in {NamelessFive, AlMinusOne} => call.out.kind = "false"

(* person was called on {name: "Al", age: null} and accepted it. *)
C9_Witness ==
    /\ CalledOp({"validator"})
    /\ call.validator = person
    /\ call.value = AlNoAge
    /\ AlNoAge.p = <<<<"name", Al>>, <<"age", VNull>>>>
    /\ call.out.kind = "true"

=============================================================================
